---- MODULE Spec2Model ----
(***************************************************************************)
(* Permission resolution engine of the chat backend                        *)
(* (app/helpers/permissions.py): the atomic multi-entity cache fetch, the  *)
(* channel-kind dispatch of fetch_user_permissions, the overwrite          *)
(* precedence of _calc_final_permissions and the gate                      *)
(* check_request_permissions.                                              *)
(*                                                                         *)
(* Every `await` of the code is a suspension point; one action runs the    *)
(* synchronous code from one suspension point to the next.                 *)
(***************************************************************************)
EXTENDS Integers, Sequences, FiniteSets, TLC

VARIABLES
    db,     \* durable storage: channels, servers, memberships, sections
    cache,  \* the key-value cache: channel:<id>, user:<id>, server:<id>, section:<id>
    proc    \* per request: the position in and the locals of check_request_permissions

vars == <<db, cache, proc>>

-----------------------------------------------------------------------------
(* Values *)

\* Python's None (also returned by dict.get on a missing key).
None == "None"

\* An empty dict / an empty Redis hash / an empty list.
Empty == <<>>

Range(s) == {s[i] : i \in DOMAIN s}

\* dict.get(field, default)
Get(rec, field, default) == IF field \in DOMAIN rec THEN rec[field] ELSE default

\* Python truthiness of an optional id string.
Falsy(id) == id = None \/ id = ""

-----------------------------------------------------------------------------
(* Permission catalog *)

\* class Permission(Enum), in definition order
Permission ==
    << "messages.create", "messages.list",
       "channels.create", "channels.view", "channels.invite", "channels.join",
       "channels.permissions.manage", "channels.kick", "channels.delete",
       "channels.members.list",
       "members.kick",
       "roles.list", "roles.create" >>

SERVER_OWNER_PERMISSIONS == Permission
CHANNEL_OWNER_PERMISSIONS == Permission

DEFAULT_ROLE_PERMISSIONS == << "messages.list", "messages.create" >>

DEFAULT_DM_MEMBER_PERMISSIONS ==
    << "channels.view", "messages.list", "messages.create", "channels.members.list" >>

DEFAULT_TOPIC_MEMBER_PERMISSIONS ==
    << "channels.view", "messages.list", "messages.create", "channels.members.list" >>

DEFAULT_USER_PERMISSIONS == << "channels.create" >>

\* The catalog in ascending string order: the order sorted() puts the strings in.
AscendingPermissions ==
    << "channels.create", "channels.delete", "channels.invite", "channels.join",
       "channels.kick", "channels.members.list", "channels.permissions.manage",
       "channels.view", "members.kick", "messages.create", "messages.list",
       "roles.create", "roles.list" >>

\* Mutant: the set is listed in the order of the catalog's declaration.
SortedList_DeclarationOrder(S) == SelectSeq(Permission, LAMBDA p : p \in S)

\* sorted(list(user_permissions)) of a set of catalog strings
SortedList(S) == SelectSeq(AscendingPermissions, LAMBDA p : p \in S)

-----------------------------------------------------------------------------
(* Overwrite resolution *)

\* The loop of _calc_final_permissions over user_roles.items(): `todo` holds the
\* role ids not visited yet, `permissions` the set accumulated so far.
RECURSIVE CalcLoop(_, _, _, _, _)
CalcLoop(todo, user_roles, section_overwrites, channel_overwrites, permissions) ==
    IF todo = {} THEN permissions
    ELSE LET role_id == CHOOSE r \in todo : TRUE
             role_permissions == user_roles[role_id]
             contribution ==
                 IF role_id \in DOMAIN channel_overwrites
                 THEN Range(channel_overwrites[role_id])
                 ELSE IF role_id \in DOMAIN section_overwrites
                 THEN Range(section_overwrites[role_id])
                 ELSE Range(role_permissions)
         IN  CalcLoop(todo \ {role_id}, user_roles, section_overwrites,
                      channel_overwrites, permissions \cup contribution)

\* Mutant: a role's default, section and channel entries are merged.
calc_final_permissions_Merged(user_roles, section_overwrites, channel_overwrites) ==
    UNION { Range(user_roles[r])
              \cup Range(Get(section_overwrites, r, Empty))
              \cup Range(Get(channel_overwrites, r, Empty)) : r \in DOMAIN user_roles }
        \cup Range(Get(channel_overwrites, "@public", Empty))

\* Mutant: the `@public` overwrite is left out.
calc_final_permissions_NoPublic(user_roles, section_overwrites, channel_overwrites) ==
    CalcLoop(DOMAIN user_roles, user_roles, section_overwrites, channel_overwrites, {})

calc_final_permissions(user_roles, section_overwrites, channel_overwrites) ==
    CalcLoop(DOMAIN user_roles, user_roles, section_overwrites, channel_overwrites, {})
        \cup Range(Get(channel_overwrites, "@public", Empty))

-----------------------------------------------------------------------------
(* Collaborators: the cache script, the fetch-and-cache gateway, the role deriver *)

\* HGETALL of a key: the stored hash, or an empty one.
Lookup(table, key) == IF key \in DOMAIN table THEN table[key] ELSE Empty

\* Mutant: the server is looked up at the channel's own key, not at the key the
\* channel record's `server` field names.
fetch_cached_permissions_data_ServerAtChannelKey(c, channel_id, user_id) ==
    LET channel_data == Lookup(c.channel, channel_id)
        user_data    == Lookup(c.user, user_id)
        server_data  == Lookup(c.server, channel_id)
        section_data == IF "section" \in DOMAIN channel_data
                        THEN Lookup(c.section, channel_data["section"])
                        ELSE Empty
    IN  [channel |-> channel_data, user |-> user_data,
         server |-> server_data, section |-> section_data]

\* The Lua script of fetch_cached_permissions_data, run against one cache state.
\* KEYS[1] = "channel:<channel_id>", KEYS[2] = "user:<user_id>" or "".
fetch_cached_permissions_data(c, channel_id, user_id) ==
    LET channel_data == Lookup(c.channel, channel_id)
        user_data    == Lookup(c.user, user_id)
        server_data  == IF "server" \in DOMAIN channel_data
                        THEN Lookup(c.server, channel_data["server"])
                        ELSE Empty
        section_data == IF "section" \in DOMAIN channel_data
                        THEN Lookup(c.section, channel_data["section"])
                        ELSE Empty
    IN  [channel |-> channel_data, user |-> user_data,
         server |-> server_data, section |-> section_data]

\* The durable-storage read of fetch_and_cache_<what>: the canonical record, or
\* an empty record when there is none.
DurableRecord(d, what, l) ==
    CASE what = "channel" -> Lookup(d.channels, l.channel_id)
      [] what = "server"  -> Lookup(d.servers, l.server_id)
      [] what = "user"    -> (l.server_id :> Lookup(Lookup(d.roles, l.user_id), l.server_id))
      [] what = "section" -> Lookup(d.sections, Get(l.channel, "section", None))

\* The cache write of fetch_and_cache_<what>: the record just read is stored at
\* its key (a user's roles field is added to the user's hash); nothing is stored
\* for a record that does not exist.
Populated(c, what, l) ==
    IF l.fetched = Empty THEN c
    ELSE CASE what = "channel" ->
                [c EXCEPT !.channel = (l.channel_id :> l.fetched) @@ @]
           [] what = "server" ->
                [c EXCEPT !.server = (l.server_id :> l.fetched) @@ @]
           [] what = "user" ->
                [c EXCEPT !.user = (l.user_id :> (l.fetched @@ Lookup(@, l.user_id))) @@ @]
           [] what = "section" ->
                [c EXCEPT !.section = (l.channel["section"] :> l.fetched) @@ @]

\* get_user_roles_permissions(user, server): role id -> the role's permissions,
\* for the roles the user's record lists for this server.
get_user_roles_permissions(user, server) ==
    LET held == Range(Get(user, Get(server, "id", None), Empty))
        roles == Get(server, "roles", Empty)
    IN  [r \in held \cap DOMAIN roles |-> roles[r]]

-----------------------------------------------------------------------------
(* fetch_user_permissions: the synchronous code between suspension points.   *)
(* Each operator takes the locals `l` of one call and gives the locals at    *)
(* the next suspension point or at the return.                               *)

\* A successful return / a raised exception of fetch_user_permissions.
\* `site` names the return statement taken.
Returned(l, site, permissions) ==
    [l EXCEPT !.pc = "done",
              !.result = [status |-> "ok", detail |-> site, permissions |-> permissions]]

Raised(l, status, detail) ==
    [l EXCEPT !.pc = "done",
              !.result = [status |-> status, detail |-> detail, permissions |-> Empty]]

\* `await fetch_and_cache_<what>(...)`: suspended on the durable read.
\* `fetches` records the fetch-and-cache calls this resolution has made.
Awaiting(l, what) ==
    [l EXCEPT !.pc = "db", !.what = what, !.fetches = Append(@, what)]

\* lines 258-267: parse the section overwrites, compute, sort
FinalStep(l) ==
    LET channel_overwrites == Get(l.channel, "permissions", Empty)
    IN  IF l.section # Empty /\ "permissions" \notin DOMAIN l.section
        THEN \* json.loads({}) raises TypeError
             Raised(l, "TypeError", "json.loads")
        ELSE LET section_overwrites ==
                     IF l.section # Empty THEN l.section["permissions"] ELSE Empty
                 user_permissions ==
                     calc_final_permissions(l.user_roles, section_overwrites,
                                            channel_overwrites)
             IN  Returned(l, "calculated", SortedList(user_permissions))

\* lines 251-256
SectionStep(l) ==
    IF l.section = Empty /\ ~Falsy(l.channel_id)
    THEN LET section_id == Get(l.channel, "section", None)
         IN  IF section_id # "" THEN Awaiting(l, "section") ELSE FinalStep(l)
    ELSE FinalStep(l)

\* line 249
RolesStep(l) ==
    SectionStep([l EXCEPT !.user_roles = get_user_roles_permissions(l.user, l.server)])

\* lines 245-247
UserStep(l) ==
    IF l.server # Empty /\ ~Falsy(l.user_id)
    THEN IF l.user = Empty \/ Get(l.user, l.server_id, Empty) = Empty
         THEN Awaiting(l, "user")
         ELSE RolesStep(l)
    ELSE SectionStep(l)

\* Mutant: the owner of the server is not recognised.
ServerOwnerStep_NoShortcut(l) == UserStep(l)

\* lines 241-242, after `server = await fetch_and_cache_server(...)`
ServerOwnerStep(l) ==
    IF ~Falsy(l.user_id) /\ Get(l.server, "owner", None) = l.user_id
    THEN Returned(l, "server owner", SERVER_OWNER_PERMISSIONS)
    ELSE UserStep(l)

\* lines 239-240
ServerStep(l) ==
    IF ~Falsy(l.server_id) /\ l.server = Empty
    THEN Awaiting(l, "server")
    ELSE UserStep(l)

\* Mutant: any signed-in user passes as a member of a dm channel.
DmStep_NoMembershipCheck(l) ==
    IF Falsy(l.user_id)
    THEN Raised(l, "APIPermissionError", "user is not a member of DM channel")
    ELSE Returned(l, "dm member", DEFAULT_DM_MEMBER_PERMISSIONS)

\* lines 224-227: kind == "dm"
DmStep(l) ==
    LET members == Range(Get(l.channel, "members", Empty))
    IN  IF Falsy(l.user_id) \/ l.user_id \notin members
        THEN Raised(l, "APIPermissionError", "user is not a member of DM channel")
        ELSE Returned(l, "dm member", DEFAULT_DM_MEMBER_PERMISSIONS)

\* Mutant: the owner of a topic channel is treated as any other user.
TopicStep_NoOwner(l) ==
    LET members == Range(Get(l.channel, "members", Empty))
    IN  ServerStep(
          [l EXCEPT !.user_roles =
               IF ~Falsy(l.user_id) /\ l.user_id \in members
               THEN "@members" :> DEFAULT_TOPIC_MEMBER_PERMISSIONS
               ELSE Empty])

TopicStep_NoSeed(l) ==
    IF ~Falsy(l.user_id) /\ Get(l.channel, "owner", None) = l.user_id
    THEN Returned(l, "channel owner", CHANNEL_OWNER_PERMISSIONS)
    ELSE ServerStep([l EXCEPT !.user_roles = Empty])

\* lines 229-233: kind == "topic"
TopicStep(l) ==
    LET members == Range(Get(l.channel, "members", Empty))
    IN  IF ~Falsy(l.user_id) /\ Get(l.channel, "owner", None) = l.user_id
        THEN Returned(l, "channel owner", CHANNEL_OWNER_PERMISSIONS)
        ELSE ServerStep(
               [l EXCEPT !.user_roles =
                    IF ~Falsy(l.user_id) /\ l.user_id \in members
                    THEN "@members" :> DEFAULT_TOPIC_MEMBER_PERMISSIONS
                    ELSE Empty])

\* Mutant: the channel's declared server is used only when none is supplied.
ServerKindStep_KeepSupplied(l) ==
    ServerStep([l EXCEPT !.server_id =
                    IF Falsy(l.server_id) THEN Get(l.channel, "server", None)
                    ELSE l.server_id])

\* line 235: kind == "server"
ServerKindStep(l) ==
    ServerStep([l EXCEPT !.server_id = Get(l.channel, "server", None)])

\* Mutant: an unknown kind falls through to the role-based resolution.
UnknownKindStep_FallThrough(l) == ServerStep(l)

\* lines 236-237: any other kind
UnknownKindStep(l) ==
    Raised(l, "APIPermissionError", "unknown channel type")

\* lines 220-221: the channel is in neither the cache nor durable storage
MissingChannelStep(l) ==
    Raised(l, "HTTPException404", "channel not found")

\* lines 220-237, with the channel record in hand
ChannelKindStep(l) ==
    LET kind == Get(l.channel, "kind", None)
    IN  IF l.channel = Empty
        THEN MissingChannelStep(l)
        ELSE CASE kind = "dm"     -> DmStep(l)
               [] kind = "topic"  -> TopicStep(l)
               [] kind = "server" -> ServerKindStep(l)
               [] OTHER           -> UnknownKindStep(l)

\* Mutant: a cached hash without `kind` is taken as the channel record.
ChannelStep_NoKindCheck(l) ==
    IF ~Falsy(l.channel_id)
    THEN IF l.channel = Empty
         THEN Awaiting(l, "channel")
         ELSE ChannelKindStep(l)
    ELSE ServerStep(l)

\* lines 214-218, with the four cached records in hand
ChannelStep(l) ==
    IF ~Falsy(l.channel_id)
    THEN IF l.channel = Empty \/ "kind" \notin DOMAIN l.channel
         THEN Awaiting(l, "channel")
         ELSE ChannelKindStep(l)
    ELSE ServerStep(l)

\* Mutant: the cache script is awaited whatever the ids are.
EntryStep_ScriptFirst(l) == [l EXCEPT !.pc = "script"]

\* Mutant: the shortcut is taken as soon as one of the two ids is missing.
EntryStep_EitherMissing(l) ==
    IF Falsy(l.channel_id) \/ Falsy(l.server_id)
    THEN Returned(l, "no context", DEFAULT_USER_PERMISSIONS)
    ELSE [l EXCEPT !.pc = "script"]

\* lines 209-212: the context-less shortcut, else the cache script is awaited
EntryStep(l) ==
    IF Falsy(l.channel_id) /\ Falsy(l.server_id)
    THEN Returned(l, "no context", DEFAULT_USER_PERMISSIONS)
    ELSE [l EXCEPT !.pc = "script"]

\* The code after `await fetch_and_cache_<what>(...)` returned `l.fetched`.
Resumed(l) ==
    LET m == [l EXCEPT !.what = None, !.fetched = Empty]
    IN  CASE l.what = "channel" -> ChannelKindStep([m EXCEPT !.channel = l.fetched])
          [] l.what = "server"  -> ServerOwnerStep([m EXCEPT !.server = l.fetched])
          [] l.what = "user"    -> RolesStep([m EXCEPT !.user = l.fetched])
          [] l.what = "section" -> FinalStep([m EXCEPT !.section = l.fetched])

\* Mutant: one of the required permissions is enough.
check_request_permissions_Any(result, permissions) ==
    IF result.status # "ok"
    THEN [status |-> result.status, detail |-> result.detail,
          needed_permissions |-> Empty, user_permissions |-> Empty]
    ELSE IF \E i \in DOMAIN permissions : permissions[i] \in Range(result.permissions)
         THEN [status |-> "allowed", detail |-> "",
               needed_permissions |-> Empty, user_permissions |-> Empty]
         ELSE [status |-> "APIPermissionError", detail |-> "needed permissions",
               needed_permissions |-> permissions,
               user_permissions |-> result.permissions]

\* lines 277-278 of check_request_permissions, on what fetch_user_permissions
\* returned or raised: an exception of the resolver propagates; a missing
\* permission raises APIPermissionError(needed_permissions, user_permissions).
check_request_permissions(result, permissions) ==
    IF result.status # "ok"
    THEN [status |-> result.status, detail |-> result.detail,
          needed_permissions |-> Empty, user_permissions |-> Empty]
    ELSE IF \A i \in DOMAIN permissions : permissions[i] \in Range(result.permissions)
         THEN [status |-> "allowed", detail |-> "",
               needed_permissions |-> Empty, user_permissions |-> Empty]
         ELSE [status |-> "APIPermissionError", detail |-> "needed permissions",
               needed_permissions |-> permissions,
               user_permissions |-> result.permissions]

\* app/exceptions.py and FastAPI: the HTTP status an exception is answered with.
ResponseStatus(exception) ==
    CASE exception = "APIPermissionError" -> "403"
      [] exception = "TypeError"          -> "400"
      [] exception = "HTTPException404"   -> "404"
      [] OTHER                            -> "200"

-----------------------------------------------------------------------------
(* The world the requests run in *)

\* The users of durable storage: u1 .. u<NumUsers>.
NumUsers == 2
Users == {"u" \o ToString(i) : i \in 1..NumUsers}
Servers == {"s1", "s2"}
ProcIds == {"p1", "p2"}

\* The ids a request can carry: "c1" is a channel of durable storage, "c0" is not.
ChannelIds == {None, "c1", "c0"}
ServerIds == {None} \cup Servers
\* current_user of a request: anonymous or u1 (u2 owns and joins, but does not call).
CallerIds == {None, "u1"}

\* `members` of a dm or topic channel, as members.split(",") gives it.
MemberLists ==
    UNION { {<< u >>, << "u1", u >>} : u \in Users \ {"u1"} }

\* `permissions` of a channel, as json.loads gives it: role id -> permissions.
ChannelOverwriteChoices ==
    { Empty,
      "r1" :> << "channels.view" >>,
      ("r1" :> Empty) @@ ("@public" :> << "messages.list" >>),
      ("@public" :> << "channels.delete" >>) @@ ("@members" :> << "channels.invite" >>) }

\* The section "x1": without a `permissions` field, or with an overwrite for r1.
SectionRecords ==
    { [id |-> "x1"],
      [id |-> "x1", permissions |-> "r1" :> << "messages.create" >>] }

\* The roles a server defines, each with its default permissions.
ServerRoles == ("r1" :> << "messages.list" >>) @@ ("r2" :> << "roles.list" >>)

\* The roles u1 may hold in a server.
HeldRoles == {Empty, << "r1" >>, << "r1", "r2" >>}

\* A channel hash that holds a stray field only (no `kind`).
StrayChannel == [name |-> "general"]
InitialChannelCaches == {Empty, ("c1" :> StrayChannel) @@ ("c0" :> StrayChannel)}

ChannelRecords ==
    { [kind |-> k, owner |-> o, members |-> m, section |-> "", permissions |-> co] :
        k \in {"dm", "topic"}, o \in Users, m \in MemberLists,
        co \in ChannelOverwriteChoices }
    \cup
    { [kind |-> "server", owner |-> o, server |-> "s1", section |-> x, permissions |-> co] :
        o \in Users, x \in {"", "x1"}, co \in ChannelOverwriteChoices }
    \cup
    { [kind |-> "bogus", owner |-> "u1", section |-> "", permissions |-> Empty] }

\* The section records that matter to a channel: one only, unless it declares x1.
SectionsFor(ch) ==
    IF ch.section = "" THEN {r \in SectionRecords : "permissions" \in DOMAIN r}
    ELSE SectionRecords

\* A server channel declares s1, whose owner varies; s2 is owned by u1.
DbConfigs ==
    UNION {
      { [channels |-> "c1" :> ch,
         servers  |-> [s \in Servers |->
                          [id |-> s, owner |-> IF s = "s1" THEN o1 ELSE "u1",
                           roles |-> ServerRoles]],
         roles    |-> "u1" :> [s \in Servers |-> held],
         sections |-> "x1" :> sec] :
          o1 \in Users, held \in HeldRoles, sec \in SectionsFor(ch) } :
      ch \in ChannelRecords }

NoResult == [status |-> "none", detail |-> "", permissions |-> Empty]

IdleLocals ==
    [pc |-> "idle", what |-> None,
     channel_id |-> None, server_id |-> None, user_id |-> None,
     arg_server_id |-> None,
     channel |-> Empty, user |-> Empty, server |-> Empty, section |-> Empty,
     user_roles |-> Empty, fetched |-> Empty, fetches |-> Empty,
     result |-> NoResult, permissions |-> Empty, gate |-> NoResult]

\* The lists of required permissions the routes pass to the gate.
RequiredChoices ==
    { Empty, << "channels.delete" >>, << "messages.list", "messages.create" >> }

\* lines 205-212: the call with its three ids, up to the first suspension point.
Called(channel_id, server_id, user_id) ==
    EntryStep([IdleLocals EXCEPT !.channel_id = channel_id,
                                 !.server_id = server_id,
                                 !.arg_server_id = server_id,
                                 !.user_id = user_id])

\* lines 192-212: the script's answer on cache state c is unpacked into the four
\* locals and the code runs on to its next suspension point.
Scripted(l, c) ==
    LET d == fetch_cached_permissions_data(
                 c, l.channel_id, IF Falsy(l.user_id) THEN "" ELSE l.user_id)
    IN  ChannelStep([l EXCEPT !.channel = d.channel, !.user = d.user,
                              !.server = d.server, !.section = d.section])

\* The rest of a resolution that runs alone from locals l, on durable state d
\* and cache state c: what it returns or raises.
RECURSIVE Resolution(_, _, _)
Resolution(l, d, c) ==
    CASE l.pc = "script"   -> Resolution(Scripted(l, c), d, c)
      [] l.pc = "db"       -> Resolution([l EXCEPT !.pc = "populate",
                                                   !.fetched = DurableRecord(d, l.what, l)],
                                         d, c)
      [] l.pc = "populate" -> Resolution(Resumed(l), d, Populated(c, l.what, l))
      [] OTHER             -> l.result

\* fetch_user_permissions(channel_id, server_id, user_id), run alone on durable
\* state d and cache state c.
fetch_user_permissions(d, c, channel_id, server_id, user_id) ==
    Resolution(Called(channel_id, server_id, user_id), d, c)

-----------------------------------------------------------------------------
(* Actions *)

Init ==
    /\ db \in DbConfigs
    /\ \E stray \in InitialChannelCaches :
          cache = [channel |-> stray, user |-> Empty, server |-> Empty, section |-> Empty]
    /\ proc = [p \in ProcIds |-> IdleLocals]

\* check_request_permissions line 275 / fetch_user_permissions lines 205-212:
\* the call with the ids taken from the request, up to the cache script.
Call(p, channel_id, server_id, user_id) ==
    /\ proc[p].pc = "idle"
    /\ proc' = [proc EXCEPT ![p] = Called(channel_id, server_id, user_id)]
    /\ UNCHANGED <<db, cache>>

\* line 212: the script answers; the code runs on to its next suspension point.
CachedData(p) ==
    /\ proc[p].pc = "script"
    /\ proc' = [proc EXCEPT ![p] = Scripted(proc[p], cache)]
    /\ UNCHANGED <<db, cache>>

\* fetch_and_cache_<what>, first half: the read of durable storage.
DurableRead(p) ==
    /\ proc[p].pc = "db"
    /\ proc' = [proc EXCEPT ![p].pc = "populate",
                            ![p].fetched = DurableRecord(db, proc[p].what, proc[p])]
    /\ UNCHANGED <<db, cache>>

\* fetch_and_cache_<what>, second half: the cache write; the record is returned
\* and the code runs on to its next suspension point.
CachePopulate(p) ==
    /\ proc[p].pc = "populate"
    /\ cache' = Populated(cache, proc[p].what, proc[p])
    /\ proc' = [proc EXCEPT ![p] = Resumed(proc[p])]
    /\ UNCHANGED db

\* check_request_permissions lines 277-278, for the route's required permissions.
Gate(p, permissions) ==
    /\ proc[p].pc = "done"
    /\ proc' = [proc EXCEPT ![p].pc = "checked",
                            ![p].permissions = permissions,
                            ![p].gate = check_request_permissions(proc[p].result, permissions)]
    /\ UNCHANGED <<db, cache>>

\* The request is over.
Finish(p) ==
    /\ proc[p].pc = "checked"
    /\ proc' = [proc EXCEPT ![p] = IdleLocals]
    /\ UNCHANGED <<db, cache>>

Next ==
    \/ \E channel_id \in ChannelIds, server_id \in ServerIds, user_id \in CallerIds :
          Call("p1", channel_id, server_id, user_id)
    \/ CachedData("p1")
    \/ DurableRead("p1")
    \/ CachePopulate("p1")
    \/ \E permissions \in RequiredChoices : Gate("p1", permissions)
    \/ Finish("p1")

Spec == Init /\ [][Next]_vars

-----------------------------------------------------------------------------
(* Properties *)

\* fetch_user_permissions of request p has returned or raised.
Resolved(p) == proc[p].pc \in {"done", "checked"}

\* The call of request p is for a channel of durable storage.
StoredChannelCall(p) == proc[p].channel_id \in DOMAIN db.channels

StoredChannel(p) == db.channels[proc[p].channel_id]

Succeeded(p, permissions) ==
    /\ proc[p].result.status = "ok"
    /\ proc[p].result.permissions = permissions

Failed(p, status) ==
    /\ proc[p].result.status = status
    /\ proc[p].result.permissions = Empty

\* C1 (as claimed): on a channel of kind `server`, the owner of the declared
\* server always resolves to the full catalog, whatever the cache holds when the
\* call starts.
C1_ServerChannelOwnerGetsCatalog ==
    \A p \in ProcIds :
        ( /\ Resolved(p)
          /\ StoredChannelCall(p)
          /\ StoredChannel(p).kind = "server"
          /\ ~Falsy(proc[p].user_id)
          /\ db.servers[StoredChannel(p).server].owner = proc[p].user_id )
        => Succeeded(p, SERVER_OWNER_PERMISSIONS)

\* C2: without a channel id, the owner of the supplied server resolves to the
\* full catalog, whatever roles the owner holds in it.
C2_ServerOwnerGetsCatalog ==
    \A p \in ProcIds :
        ( /\ Resolved(p)
          /\ Falsy(proc[p].channel_id)
          /\ proc[p].arg_server_id \in DOMAIN db.servers
          /\ ~Falsy(proc[p].user_id)
          /\ db.servers[proc[p].arg_server_id].owner = proc[p].user_id )
        => Succeeded(p, SERVER_OWNER_PERMISSIONS)

C2_Witness ==
    LET l == proc["p1"]
    IN  /\ l.pc = "done"
        /\ l.channel_id = None /\ l.arg_server_id = "s2" /\ l.user_id = "u1"
        /\ db.servers["s2"].owner = "u1"
        /\ db.roles["u1"]["s2"] = << "r1", "r2" >>
        /\ "s2" \in DOMAIN cache.server
        /\ Succeeded("p1", SERVER_OWNER_PERMISSIONS)

\* C3: on a dm channel, a user who is absent or not listed in `members` is
\* refused with APIPermissionError, and a listed member gets exactly
\* DEFAULT_DM_MEMBER_PERMISSIONS, whatever the overwrites, the owner, the
\* supplied server id and the user's roles are.
C3_DmExclusivity ==
    \A p \in ProcIds :
        ( /\ Resolved(p)
          /\ StoredChannelCall(p)
          /\ StoredChannel(p).kind = "dm" )
        => IF Falsy(proc[p].user_id)
              \/ proc[p].user_id \notin Range(StoredChannel(p).members)
           THEN /\ Failed(p, "APIPermissionError")
                /\ ResponseStatus(proc[p].result.status) = "403"
           ELSE Succeeded(p, DEFAULT_DM_MEMBER_PERMISSIONS)

C3_Witness ==
    LET l == proc["p1"]
    IN  /\ l.pc = "done"
        /\ l.channel_id = "c1" /\ l.user_id = "u1" /\ l.arg_server_id = "s2"
        /\ db.channels["c1"].kind = "dm"
        /\ db.channels["c1"].owner = "u2"
        /\ "u1" \in Range(db.channels["c1"].members)
        /\ "@public" \in DOMAIN db.channels["c1"].permissions
        /\ db.roles["u1"]["s2"] # Empty
        /\ Succeeded("p1", DEFAULT_DM_MEMBER_PERMISSIONS)

\* The reference of C4: each held role contributes one source only.
RoleContribution(role_id, user_roles, section_overwrites, channel_overwrites) ==
    IF role_id \in DOMAIN channel_overwrites THEN Range(channel_overwrites[role_id])
    ELSE IF role_id \in DOMAIN section_overwrites THEN Range(section_overwrites[role_id])
    ELSE Range(user_roles[role_id])

ReferencePermissions(user_roles, section_overwrites, channel_overwrites) ==
    UNION { RoleContribution(r, user_roles, section_overwrites, channel_overwrites) :
              r \in DOMAIN user_roles }
        \cup (IF "@public" \in DOMAIN channel_overwrites
              THEN Range(channel_overwrites["@public"]) ELSE {})

\* C4: the set _calc_final_permissions computes is the reference: per held role
\* the channel overwrite if there is an entry (even an empty one), else the
\* section overwrite, else the role's default; plus the channel's `@public`.
C4_CalcIsReference ==
    \A p \in ProcIds :
        (Resolved(p) /\ proc[p].result.status = "ok"
                     /\ proc[p].result.detail = "calculated")
        => proc[p].result.permissions =
             SortedList(ReferencePermissions(
                 proc[p].user_roles,
                 Get(proc[p].section, "permissions", Empty),
                 Get(proc[p].channel, "permissions", Empty)))

C4_Witness ==
    LET l == proc["p1"]
    IN  /\ l.pc = "done"
        /\ l.user_roles = ("r1" :> << "messages.list" >>)
        /\ Get(l.section, "permissions", Empty) = ("r1" :> << "messages.create" >>)
        /\ Get(l.channel, "permissions", Empty) = ("r1" :> << "channels.view" >>)
        /\ l.result.detail = "calculated"
        /\ l.result.permissions = << "channels.view" >>

\* C5 (as claimed): whenever the resolution succeeds for a channel that has an
\* `@public` overwrite, every permission of that overwrite is in the result.
C5_PublicOverwriteInEveryResult ==
    \A p \in ProcIds :
        ( /\ Resolved(p)
          /\ proc[p].result.status = "ok"
          /\ StoredChannelCall(p)
          /\ "@public" \in DOMAIN StoredChannel(p).permissions )
        => Range(StoredChannel(p).permissions["@public"])
             \subseteq Range(proc[p].result.permissions)

\* C5 (amended): whenever the resolution succeeds for a channel of kind `topic`
\* or `server` that has an `@public` overwrite, every permission of that
\* overwrite is in the result, for every user, anonymous and role-less included.
C5_PublicOverwriteInTopicAndServerResult ==
    \A p \in ProcIds :
        ( /\ Resolved(p)
          /\ proc[p].result.status = "ok"
          /\ StoredChannelCall(p)
          /\ StoredChannel(p).kind \in {"topic", "server"}
          /\ "@public" \in DOMAIN StoredChannel(p).permissions )
        => Range(StoredChannel(p).permissions["@public"])
             \subseteq Range(proc[p].result.permissions)

C5_Witness ==
    LET l == proc["p1"]
    IN  /\ l.pc = "done"
        /\ l.channel_id = "c1" /\ l.user_id = None
        /\ db.channels["c1"].kind = "topic"
        /\ "@public" \in DOMAIN db.channels["c1"].permissions
        /\ l.user_roles = Empty
        /\ Succeeded("p1", << "channels.delete" >>)

\* C6: without a channel id and without a server id the result is exactly
\* DEFAULT_USER_PERMISSIONS for every user, and the context-less return is
\* taken in that case only.
C6_NoContextDefault ==
    \A p \in ProcIds :
        Resolved(p) =>
            /\ (Falsy(proc[p].channel_id) /\ Falsy(proc[p].arg_server_id))
                 => /\ Succeeded(p, DEFAULT_USER_PERMISSIONS)
                    /\ proc[p].result.detail = "no context"
            /\ proc[p].result.detail = "no context"
                 => (Falsy(proc[p].channel_id) /\ Falsy(proc[p].arg_server_id))

C6_Witness ==
    LET l == proc["p1"]
    IN  /\ l.pc = "done"
        /\ l.channel_id = None /\ l.arg_server_id = None /\ l.user_id = None
        /\ Succeeded("p1", DEFAULT_USER_PERMISSIONS)

\* C7: a channel id that durable storage does not hold (cached or not, with a
\* hash that lacks `kind`) ends in HTTP 404 and no permission set; a channel
\* that durable storage holds never ends in 404.
C7_MissingChannelIsNotFound ==
    \A p \in ProcIds :
        (Resolved(p) /\ ~Falsy(proc[p].channel_id)) =>
            IF StoredChannelCall(p)
            THEN proc[p].result.status # "HTTPException404"
            ELSE /\ Failed(p, "HTTPException404")
                 /\ ResponseStatus(proc[p].result.status) = "404"

C7_Witness ==
    LET l == proc["p1"]
    IN  /\ l.pc = "done"
        /\ l.channel_id = "c0"
        /\ "c0" \in DOMAIN cache.channel
        /\ l.fetches = << "channel" >>
        /\ Failed("p1", "HTTPException404")

\* C8: a channel whose kind is none of dm, topic, server is refused with
\* APIPermissionError (HTTP 403) for every user, and no permission set is
\* returned.
C8_UnknownKindRejected ==
    \A p \in ProcIds :
        ( /\ Resolved(p)
          /\ StoredChannelCall(p)
          /\ StoredChannel(p).kind \notin {"dm", "topic", "server"} )
        => /\ Failed(p, "APIPermissionError")
           /\ ResponseStatus(proc[p].result.status) = "403"

C8_Witness ==
    LET l == proc["p1"]
    IN  /\ l.pc = "done"
        /\ l.channel_id = "c1" /\ l.user_id = "u1" /\ l.arg_server_id = "s2"
        /\ db.channels["c1"].kind = "bogus"
        /\ db.channels["c1"].owner = "u1"
        /\ Failed("p1", "APIPermissionError")

\* Every permission of `permissions` is in the resolved list.
AllGranted(p) ==
    \A i \in DOMAIN proc[p].permissions :
        proc[p].permissions[i] \in Range(proc[p].result.permissions)

\* C9: the gate lets a request through exactly when the resolution succeeded
\* with every required permission; a missing one raises APIPermissionError with
\* the required list and the resolved list; a failure of the resolution is the
\* failure of the gate.
C9_GateAllowsIffAllGranted ==
    \A p \in ProcIds :
        proc[p].pc = "checked" =>
            /\ proc[p].gate.status = "allowed"
                 <=> (proc[p].result.status = "ok" /\ AllGranted(p))
            /\ (proc[p].result.status = "ok" /\ ~AllGranted(p))
                 => /\ proc[p].gate.status = "APIPermissionError"
                    /\ proc[p].gate.needed_permissions = proc[p].permissions
                    /\ proc[p].gate.user_permissions = proc[p].result.permissions
            /\ proc[p].result.status # "ok"
                 => proc[p].gate.status = proc[p].result.status

C9_Witness ==
    LET l == proc["p1"]
    IN  /\ l.pc = "checked"
        /\ l.permissions = << "messages.list", "messages.create" >>
        /\ l.result.status = "ok"
        /\ l.result.permissions = << "messages.list" >>
        /\ l.gate.status = "APIPermissionError"

\* C10: on a topic channel, the channel's owner resolves to
\* CHANNEL_OWNER_PERMISSIONS, whatever the members, the overwrites and the
\* supplied server id are.
C10_TopicOwnerGetsCatalog ==
    \A p \in ProcIds :
        ( /\ Resolved(p)
          /\ StoredChannelCall(p)
          /\ StoredChannel(p).kind = "topic"
          /\ ~Falsy(proc[p].user_id)
          /\ StoredChannel(p).owner = proc[p].user_id )
        => Succeeded(p, CHANNEL_OWNER_PERMISSIONS)

C10_Witness ==
    LET l == proc["p1"]
    IN  /\ l.pc = "done"
        /\ l.channel_id = "c1" /\ l.user_id = "u1" /\ l.arg_server_id = "s1"
        /\ db.channels["c1"].kind = "topic"
        /\ db.channels["c1"].owner = "u1"
        /\ "u1" \notin Range(db.channels["c1"].members)
        /\ db.channels["c1"].permissions # Empty
        /\ db.servers["s1"].owner = "u2"
        /\ Succeeded("p1", CHANNEL_OWNER_PERMISSIONS)

\* The list holds every permission of the other list.
Contains(permissions, needed) == Range(needed) \subseteq Range(permissions)

\* The call of request p is by a listed member of a stored topic channel who is
\* not its owner and holds no role in any server.
TopicMemberCall(p) ==
    /\ StoredChannelCall(p)
    /\ StoredChannel(p).kind = "topic"
    /\ ~Falsy(proc[p].user_id)
    /\ proc[p].user_id \in Range(StoredChannel(p).members)
    /\ StoredChannel(p).owner # proc[p].user_id
    /\ \A s \in DOMAIN Get(db.roles, proc[p].user_id, Empty) :
           db.roles[proc[p].user_id][s] = Empty

\* C11 (as claimed): on a topic channel, whatever the overwrite map and the
\* supplied server id are, a listed member who is not the owner and holds no
\* explicit role gets every permission of DEFAULT_TOPIC_MEMBER_PERMISSIONS.
C11_TopicMemberGetsDefaults ==
    \A p \in ProcIds :
        (Resolved(p) /\ TopicMemberCall(p))
        => /\ proc[p].result.status = "ok"
           /\ Contains(proc[p].result.permissions, DEFAULT_TOPIC_MEMBER_PERMISSIONS)

\* C11 (amended): the same, for a topic channel whose overwrite map has no
\* `@members` entry and a call that supplies no server id.
C11_TopicMemberGetsDefaultsUnlessOverwritten ==
    \A p \in ProcIds :
        ( /\ Resolved(p)
          /\ TopicMemberCall(p)
          /\ "@members" \notin DOMAIN StoredChannel(p).permissions
          /\ Falsy(proc[p].arg_server_id) )
        => /\ proc[p].result.status = "ok"
           /\ Contains(proc[p].result.permissions, DEFAULT_TOPIC_MEMBER_PERMISSIONS)

C11_Witness ==
    LET l == proc["p1"]
    IN  /\ l.pc = "done"
        /\ TopicMemberCall("p1")
        /\ Falsy(l.arg_server_id)
        /\ "@public" \in DOMAIN StoredChannel("p1").permissions
        /\ "@members" \notin DOMAIN StoredChannel("p1").permissions
        /\ l.result.detail = "calculated"
        /\ Contains(l.result.permissions, DEFAULT_TOPIC_MEMBER_PERMISSIONS)
        /\ Contains(l.result.permissions, << "messages.list" >>)

\* C12 (as claimed): on a topic channel with no `@public` overwrite, a user who
\* is neither the owner nor a member resolves to the empty list, whatever server
\* id is supplied and whatever the user owns or holds in that server.
C12_TopicOutsiderGetsNothing ==
    \A p \in ProcIds :
        ( /\ Resolved(p)
          /\ StoredChannelCall(p)
          /\ StoredChannel(p).kind = "topic"
          /\ "@public" \notin DOMAIN StoredChannel(p).permissions
          /\ ~Falsy(proc[p].user_id)
          /\ StoredChannel(p).owner # proc[p].user_id
          /\ proc[p].user_id \notin Range(StoredChannel(p).members) )
        => Succeeded(p, Empty)

\* C13 (as claimed): on a channel of kind `server`, the owner of the channel
\* resolves to the full catalog, whether or not the same user owns the server,
\* and before any role is looked up.
C13_ServerChannelChannelOwnerGetsCatalog ==
    \A p \in ProcIds :
        ( /\ Resolved(p)
          /\ StoredChannelCall(p)
          /\ StoredChannel(p).kind = "server"
          /\ ~Falsy(proc[p].user_id)
          /\ StoredChannel(p).owner = proc[p].user_id )
        => /\ proc[p].result.status = "ok"
           /\ Range(proc[p].result.permissions) = Range(Permission)
           /\ "user" \notin Range(proc[p].fetches)

\* Position of a catalog string in ascending string order.
Rank(permission) ==
    CHOOSE i \in DOMAIN AscendingPermissions : AscendingPermissions[i] = permission

\* The list is in strictly ascending string order (so it has no duplicates).
IsAscending(permissions) ==
    \A i, j \in DOMAIN permissions :
        i < j => Rank(permissions[i]) < Rank(permissions[j])

NoDuplicates(permissions) ==
    \A i, j \in DOMAIN permissions :
        permissions[i] = permissions[j] => i = j

\* C14 (as claimed): every list fetch_user_permissions returns, on every
\* successful return path, is in ascending order without duplicates.
C14_EveryResultAscending ==
    \A p \in ProcIds :
        (Resolved(p) /\ proc[p].result.status = "ok")
        => IsAscending(proc[p].result.permissions)

\* C14 (amended): every returned list is free of duplicates; the list of the
\* final return (and the one-element no-context default) is ascending; the
\* owner and dm shortcuts return their catalog lists in declaration order.
C14_CalculatedResultAscending ==
    \A p \in ProcIds :
        (Resolved(p) /\ proc[p].result.status = "ok")
        => /\ NoDuplicates(proc[p].result.permissions)
           /\ proc[p].result.detail \in {"calculated", "no context"}
                => IsAscending(proc[p].result.permissions)
           /\ proc[p].result.detail \in {"channel owner", "server owner"}
                => proc[p].result.permissions = Permission
           /\ proc[p].result.detail = "dm member"
                => proc[p].result.permissions = DEFAULT_DM_MEMBER_PERMISSIONS

C14_Witness ==
    LET l == proc["p1"]
    IN  /\ l.pc = "done"
        /\ l.result.status = "ok"
        /\ l.result.detail = "calculated"
        /\ l.result.permissions =
             << "channels.members.list", "channels.view",
                "messages.create", "messages.list" >>

EmptyCache == [channel |-> Empty, user |-> Empty, server |-> Empty, section |-> Empty]

\* Every record of cache state c equals the record of durable state d it was
\* loaded from.
CacheCoherent(d, c) ==
    /\ \A k \in DOMAIN c.channel :
           k \in DOMAIN d.channels /\ c.channel[k] = d.channels[k]
    /\ \A k \in DOMAIN c.server :
           k \in DOMAIN d.servers /\ c.server[k] = d.servers[k]
    /\ \A k \in DOMAIN c.section :
           k \in DOMAIN d.sections /\ c.section[k] = d.sections[k]
    /\ \A u \in DOMAIN c.user : \A s \in DOMAIN c.user[u] :
           c.user[u][s] = Lookup(Lookup(d.roles, u), s)

\* What a caller sees of a result: success with a list, or the exception.
Outcome(result) == [status |-> result.status, permissions |-> result.permissions]

\* C17 (as claimed): the cache is never the source of truth. Whenever every
\* cached record equals its durable record, a resolution ends as the same call
\* would end on an empty cache.
C17_CacheIsTransparent ==
    \A p \in ProcIds :
        (Resolved(p) /\ CacheCoherent(db, cache))
        => Outcome(proc[p].result)
             = Outcome(fetch_user_permissions(db, EmptyCache, proc[p].channel_id,
                                              proc[p].arg_server_id, proc[p].user_id))

\* C18: on a channel of kind `server` the effective server is the declared one:
\* once the call is made, it ends the same way for every server id the caller
\* could have supplied (none, the declared one, another server the user owns),
\* and the server it resolved against is the one the channel declares.
C18_SuppliedServerIgnored ==
    \A p \in ProcIds :
        (StoredChannelCall(p) /\ StoredChannel(p).kind = "server")
        => /\ proc[p].pc = "script" =>
                \A server_id \in ServerIds :
                    Outcome(Resolution(proc[p], db, cache))
                      = Outcome(Resolution([proc[p] EXCEPT !.server_id = server_id,
                                                           !.arg_server_id = server_id],
                                           db, cache))
           /\ (Resolved(p) /\ proc[p].result.status = "ok") =>
                /\ proc[p].server_id = StoredChannel(p).server
                /\ proc[p].server \in {Empty, db.servers[StoredChannel(p).server]}

C18_Witness ==
    LET l == proc["p1"]
    IN  /\ l.pc = "done"
        /\ l.channel_id = "c1" /\ l.user_id = "u1" /\ l.arg_server_id = "s2"
        /\ db.channels["c1"].kind = "server"
        /\ db.channels["c1"].server = "s1"
        /\ db.servers["s1"].owner = "u2"
        /\ db.servers["s2"].owner = "u1"
        /\ db.roles["u1"]["s1"] = << "r1" >>
        /\ db.channels["c1"].permissions = Empty
        /\ l.result.status = "ok"
        /\ l.result.detail = "calculated"
        /\ l.result.permissions = << "messages.list" >>

\* C20 (as claimed): the section overwrites default to the empty map. For a
\* channel that declares no section, no section is fetched from durable storage;
\* for a channel whose section record has no `permissions` field, the resolution
\* still succeeds, with the list computed from the channel overwrites and the
\* roles alone.
C20_SectionOverwritesDefaultEmpty ==
    \A p \in ProcIds :
        (Resolved(p) /\ StoredChannelCall(p) /\ StoredChannel(p).kind = "server")
        => /\ StoredChannel(p).section = "" => "section" \notin Range(proc[p].fetches)
           /\ ( /\ StoredChannel(p).section \in DOMAIN db.sections
                /\ "permissions" \notin DOMAIN db.sections[StoredChannel(p).section] )
              => /\ proc[p].result.status = "ok"
                 /\ proc[p].result.detail = "calculated"
                      => proc[p].result.permissions
                           = SortedList(calc_final_permissions(
                                 proc[p].user_roles, Empty, StoredChannel(p).permissions))

-----------------------------------------------------------------------------
(* Two concurrent resolutions of one call, on a cold cache *)

InitPair ==
    /\ db \in DbConfigs
    /\ cache = EmptyCache
    /\ proc = [p \in ProcIds |-> IdleLocals]

\* Two requests make the same call; each is suspended on the cache script.
CallPair(channel_id, server_id, user_id) ==
    /\ \A p \in ProcIds : proc[p].pc = "idle"
    /\ proc' = [p \in ProcIds |-> Called(channel_id, server_id, user_id)]
    /\ UNCHANGED <<db, cache>>

\* The event loop resumes either request at any of its suspension points.
NextPair ==
    \/ \E channel_id \in ChannelIds \ {None}, server_id \in ServerIds,
          user_id \in CallerIds :
          CallPair(channel_id, server_id, user_id)
    \/ \E p \in ProcIds :
          \/ CachedData(p)
          \/ DurableRead(p)
          \/ CachePopulate(p)

SpecPair == InitPair /\ [][NextPair]_vars

\* C15 (as claimed): two resolutions of the same call for a channel absent from
\* the cache, interleaved in any way at their suspension points, end with the
\* same result, and the cache then holds for the channel what one
\* fetch-and-cache of it stores.
C15_ConcurrentResolutionsAgree ==
    (\A p \in ProcIds : proc[p].pc = "done")
    => /\ Outcome(proc["p1"].result) = Outcome(proc["p2"].result)
       /\ Lookup(cache.channel, proc["p1"].channel_id)
            = Lookup(db.channels, proc["p1"].channel_id)

\* C16: fetch_cached_permissions_data is one step on the cache. The four records
\* a resolution holds when its script has answered are the records of the one
\* cache state of that step, which the step leaves as it is: the channel at the
\* channel id, the user at the user id (an empty record without a user id), the
\* server and the section at the keys the channel record's own `server` and
\* `section` fields name (empty records when the channel record has no such
\* field), whatever the other request wrote before or writes after.
C16_ScriptReadsOneCacheState ==
    [][ \A p \in ProcIds :
          (proc[p].pc = "script" /\ proc'[p].pc # "script")
          => LET l == proc'[p]
             IN  /\ cache' = cache
                 /\ l.channel = Lookup(cache.channel, l.channel_id)
                 /\ l.user = IF Falsy(l.user_id) THEN Empty
                             ELSE Lookup(cache.user, l.user_id)
                 /\ l.server = IF "server" \in DOMAIN l.channel
                               THEN Lookup(cache.server, l.channel["server"])
                               ELSE Empty
                 /\ l.section = IF "section" \in DOMAIN l.channel
                                THEN Lookup(cache.section, l.channel["section"])
                                ELSE Empty ]_vars

C16_Witness ==
    LET l == proc["p2"]
    IN  /\ l.pc = "done"
        /\ proc["p1"].pc = "populate"
        /\ l.fetches = << "section" >>
        /\ l.channel = db.channels["c1"]
        /\ l.channel.kind = "server"
        /\ l.server = db.servers["s1"]
        /\ l.user # Empty
        /\ l.section # Empty
        /\ l.arg_server_id = "s2"
        /\ cache.section # Empty

-----------------------------------------------------------------------------
(* The context extractor of check_request_permissions *)

\* JSON values as request.json() gives them. JsonNull is also Python's None, what
\* body.get(field) gives for a field that is not there. A string is the sequence
\* of its characters.
JsonNull == [type |-> "null"]
JsonString(s) == [type |-> "string", s |-> s]
JsonNumber(n) == [type |-> "number", n |-> n]
JsonArray(items) == [type |-> "array", items |-> items]
JsonObject(fields) == [type |-> "object", fields |-> fields]

\* Python's truth value of a parsed JSON value: `if value`, `not body`.
Truthy(v) ==
    CASE v.type = "null"   -> FALSE
      [] v.type = "string" -> v.s # << >>
      [] v.type = "number" -> v.n # 0
      [] v.type = "array"  -> v.items # << >>
      [] v.type = "object" -> DOMAIN v.fields # {}

\* The ids of the routes: `.{24}` in the two patterns.
IdLength == 24

ChannelsPrefix == << "/", "c", "h", "a", "n", "n", "e", "l", "s", "/" >>
ServersPrefix == << "/", "s", "e", "r", "v", "e", "r", "s", "/" >>

\* re.findall(r"^<prefix>(.{24})/?", path): the list of captures, at most one
\* since the pattern is anchored; `.` is any character of a path.
findall(prefix, path) ==
    IF /\ Len(path) >= Len(prefix) + IdLength
       /\ SubSeq(path, 1, Len(prefix)) = prefix
    THEN << SubSeq(path, Len(prefix) + 1, Len(prefix) + IdLength) >>
    ELSE << >>

\* lines 90-95: the loop over `fields` on a dict body
RECURSIVE FieldLoop(_, _)
FieldLoop(fields, body) ==
    IF fields = << >> THEN JsonNull
    ELSE LET value == Get(body, Head(fields), JsonNull)
         IN  IF Truthy(value) THEN value ELSE FieldLoop(Tail(fields), body)

\* Mutant: the first field that is there is returned, whatever its value.
fetch_fields_from_request_body_FirstPresent(fields, request) ==
    IF request.body.parse # "ok" THEN JsonNull
    ELSE LET body == request.body.json
             there == { i \in DOMAIN fields : fields[i] \in DOMAIN body.fields }
         IN  IF ~Truthy(body) \/ body.type # "object" \/ there = {} THEN JsonNull
             ELSE body.fields[fields[CHOOSE i \in there : \A j \in there : i <= j]]

\* _fetch_fields_from_request_body. request.body.parse tells how request.json()
\* ends: "empty" (it raises, the raw body is b""), "invalid" (it raises, the raw
\* body is not empty) or "ok" (it returns request.body.json).
fetch_fields_from_request_body(fields, request) ==
    IF request.body.parse # "ok" THEN JsonNull
    ELSE LET body == request.body.json
         IN  IF ~Truthy(body) THEN JsonNull
             ELSE IF body.type = "object" THEN FieldLoop(fields, body.fields)
             ELSE JsonNull

\* lines 100-110 and 113-123, which differ in the prefix and the fields only
fetch_from_request(prefix, fields, request) ==
    LET matches == findall(prefix, request.path)
    IN  IF matches # << >> THEN JsonString(matches[1])
        ELSE LET value == fetch_fields_from_request_body(fields, request)
             IN  IF Truthy(value) THEN value ELSE JsonNull

ChannelFields == << "channel", "channel_id" >>
ServerFields == << "server", "server_id" >>

fetch_channel_from_request(request) ==
    fetch_from_request(ChannelsPrefix, ChannelFields, request)

fetch_server_from_request(request) ==
    fetch_from_request(ServersPrefix, ServerFields, request)

\* The string of n characters ch.
Repeat(ch, n) == [i \in 1..n |-> ch]

\* Request paths: a channel route, with and without a tail; an id of 23
\* characters; the list route; a path whose first 24 characters after the prefix
\* run over two segments; the same for servers; a channel route under a server;
\* a route of neither.
RequestPaths ==
    { ChannelsPrefix \o Repeat("a", IdLength),
      ChannelsPrefix \o Repeat("a", IdLength) \o << "/", "m" >>,
      ChannelsPrefix \o Repeat("a", IdLength - 1),
      << "/", "c", "h", "a", "n", "n", "e", "l", "s" >>,
      ChannelsPrefix \o << "a", "/" >> \o Repeat("m", IdLength),
      ServersPrefix \o Repeat("b", IdLength),
      ServersPrefix \o Repeat("b", IdLength - 1) \o << "/" >>,
      ServersPrefix \o Repeat("b", IdLength) \o ChannelsPrefix \o Repeat("a", IdLength),
      << "/", "u", "s", "e", "r", "s", "/", "m", "e" >> }

BodyFieldNames == { "channel", "channel_id", "server", "server_id" }

\* The id a body carries in a field: one letter per field, to tell them apart.
BodyId(field) ==
    JsonString(Repeat(CASE field = "channel" -> "c" [] field = "channel_id" -> "d"
                        [] field = "server" -> "s" [] field = "server_id" -> "t",
                      IdLength))

\* JSON objects: each of the four fields is missing, an empty string or an id.
BodyObjects ==
    UNION { { [k \in S |-> IF k \in filled THEN BodyId(k) ELSE JsonString(<< >>)] :
                filled \in SUBSET S } :
            S \in SUBSET BodyFieldNames }

RequestBodies ==
    { [parse |-> "empty"], [parse |-> "invalid"] }
      \cup { [parse |-> "ok", json |-> v] :
               v \in { JsonNull, JsonNumber(0), JsonString(<< "x" >>), JsonArray(<< >>),
                       JsonArray(<< BodyId("channel") >>) } }
      \cup { [parse |-> "ok", json |-> JsonObject(fields)] : fields \in BodyObjects }

Requests == [path : RequestPaths, body : RequestBodies]

\* A request has arrived at a route guarded by check_request_permissions.
InitRequest ==
    /\ db = [channels |-> Empty, servers |-> Empty, roles |-> Empty, sections |-> Empty]
    /\ cache = EmptyCache
    /\ \E request \in Requests :
          proc = [p \in ProcIds |->
                    IF p = "p1" THEN [pc |-> "received", request |-> request]
                    ELSE IdleLocals]

\* check_request_permissions lines 271-272: the two ids are taken from the request.
ExtractContext(p) ==
    /\ proc[p].pc = "received"
    /\ proc' = [proc EXCEPT ![p] =
                  [pc |-> "extracted", request |-> proc[p].request,
                   channel_id |-> fetch_channel_from_request(proc[p].request),
                   server_id |-> fetch_server_from_request(proc[p].request)]]
    /\ UNCHANGED <<db, cache>>

NextRequest == ExtractContext("p1")

SpecRequest == InitRequest /\ [][NextRequest]_vars

\* The path starts with the prefix and at least 24 more characters.
HasIdAfter(path, prefix) ==
    /\ Len(path) >= Len(prefix) + IdLength
    /\ \A i \in 1..Len(prefix) : path[i] = prefix[i]

IdAfter(path, prefix) == [i \in 1..IdLength |-> path[Len(prefix) + i]]

\* The body parsed to a JSON object with at least one field.
ObjectBody(request) ==
    /\ request.body.parse = "ok"
    /\ request.body.json.type = "object"

\* The fields of the list, in its order, that the predicate picks.
Picked(fields, request, Pick(_)) ==
    { i \in DOMAIN fields :
        /\ fields[i] \in DOMAIN request.body.json.fields
        /\ Pick(request.body.json.fields[fields[i]]) }

\* `id` is what the extractor is to give: the 24 characters after the prefix when
\* the path has them, whatever the body is; else the value of the first listed
\* field of an object body that Pick accepts (none will do for an empty value);
\* else none.
Extracted(id, prefix, fields, request, Pick(_)) ==
    IF HasIdAfter(request.path, prefix)
    THEN id = JsonString(IdAfter(request.path, prefix))
    ELSE IF ObjectBody(request) /\ Picked(fields, request, Pick) # {}
         THEN LET first == CHOOSE i \in Picked(fields, request, Pick) :
                               \A j \in Picked(fields, request, Pick) : i <= j
                  value == request.body.json.fields[fields[first]]
              IN  \/ id = value
                  \/ ~Truthy(value) /\ id = JsonNull
         ELSE id = JsonNull

Present(value) == TRUE

\* C19 (as claimed): the extractor gives the 24 characters after `/channels/`
\* when the path starts so, without looking at the body; else the value of the
\* first of the body fields `channel`, `channel_id` that is present; else none,
\* also for an empty, unparsable or non-object body. The same for servers.
C19_ExtractorFirstPresent ==
    \A p \in ProcIds :
        proc[p].pc = "extracted" =>
            /\ Extracted(proc[p].channel_id, ChannelsPrefix, ChannelFields,
                         proc[p].request, Present)
            /\ Extracted(proc[p].server_id, ServersPrefix, ServerFields,
                         proc[p].request, Present)

\* C19 (amended): the same, with the first of the body fields whose value is
\* not empty: a field that is there with an empty value is passed over.
C19_ExtractorFirstNonEmpty ==
    \A p \in ProcIds :
        proc[p].pc = "extracted" =>
            /\ Extracted(proc[p].channel_id, ChannelsPrefix, ChannelFields,
                         proc[p].request, Truthy)
            /\ Extracted(proc[p].server_id, ServersPrefix, ServerFields,
                         proc[p].request, Truthy)

C19_Witness ==
    LET l == proc["p1"]
    IN  /\ l.pc = "extracted"
        /\ l.request.path = ServersPrefix \o Repeat("b", IdLength)
        /\ l.request.body.parse = "ok"
        /\ l.request.body.json.type = "object"
        /\ l.request.body.json.fields =
             [k \in BodyFieldNames |->
                 IF k = "channel" THEN JsonString(<< >>) ELSE BodyId(k)]
        /\ l.channel_id = BodyId("channel_id")
        /\ l.server_id = JsonString(Repeat("b", IdLength))

-----------------------------------------------------------------------------
(* A resolution racing with an update of the channel *)

\* What the update service does to the channel's cache entry once the durable
\* record is written: it stores the new record, or it deletes the entry.
CacheContracts == { "overwrite", "invalidate" }

\* The table without the key.
Removed(table, key) ==
    IF DOMAIN table \ {key} = {} THEN Empty
    ELSE [k \in DOMAIN table \ {key} |-> table[k]]

\* update_channel, first half: the channel's overwrites are replaced in durable
\* storage; the request is suspended before it reaches the cache.
UpdateChannel(p, channel_id, permissions, contract) ==
    /\ proc[p].pc = "idle"
    /\ channel_id \in DOMAIN db.channels
    /\ permissions # db.channels[channel_id].permissions
    /\ db' = [db EXCEPT !.channels[channel_id].permissions = permissions]
    /\ proc' = [proc EXCEPT ![p] =
                  [pc |-> "cache", channel_id |-> channel_id, contract |-> contract,
                   written |-> db'.channels[channel_id]]]
    /\ UNCHANGED cache

\* update_channel, second half: the cache entry is overwritten with the record
\* just written, or deleted.
UpdateChannelCache(p) ==
    /\ proc[p].pc = "cache"
    /\ cache' = IF proc[p].contract = "overwrite"
                THEN [cache EXCEPT !.channel =
                         (proc[p].channel_id :> proc[p].written) @@ @]
                ELSE [cache EXCEPT !.channel = Removed(@, proc[p].channel_id)]
    /\ proc' = [proc EXCEPT ![p].pc = "updated"]
    /\ UNCHANGED db

\* One resolution for channel c1 by request p1, one update of c1 by request p2.
NextUpdate ==
    \/ \E server_id \in ServerIds, user_id \in CallerIds :
          Call("p1", "c1", server_id, user_id)
    \/ CachedData("p1")
    \/ DurableRead("p1")
    \/ CachePopulate("p1")
    \/ \E permissions \in ChannelOverwriteChoices, contract \in CacheContracts :
          UpdateChannel("p2", "c1", permissions, contract)
    \/ UpdateChannelCache("p2")

SpecUpdate == InitPair /\ [][NextUpdate]_vars

\* C21 (as claimed): when an update of a channel (durable write, then overwrite
\* or invalidation of the cache entry) and a resolution that repopulates the
\* entry after a miss have both finished, in whatever order their steps ran, the
\* channel's cache entry is absent or equal to the durable record.
C21_NoStaleChannelAfterUpdate ==
    (proc["p1"].pc = "done" /\ proc["p2"].pc = "updated"
       /\ "channel" \in Range(proc["p1"].fetches))
    => \/ proc["p2"].channel_id \notin DOMAIN cache.channel
       \/ cache.channel[proc["p2"].channel_id] = db.channels[proc["p2"].channel_id]

\* Every entry of table `after` is the entry of table `before` or the record of
\* the durable table, and no entry of `before` is gone.
OnlyPopulated(before, after, durable) ==
    /\ DOMAIN before \subseteq DOMAIN after
    /\ \A k \in DOMAIN after :
          \/ k \in DOMAIN before /\ after[k] = before[k]
          \/ k \in DOMAIN durable /\ after[k] = durable[k]

\* The resolution waits for a fetch-and-cache only of a record it does not hold.
FetchOnMiss(l) ==
    CASE l.what = "channel" -> l.channel = Empty \/ "kind" \notin DOMAIN l.channel
      [] l.what = "server"  -> l.server = Empty
      [] l.what = "user"    -> Get(l.user, l.server_id, Empty) = Empty
      [] l.what = "section" -> l.section = Empty

\* C22: fetch_user_permissions and check_request_permissions never change
\* durable storage; a step changes the cache only as the write of a
\* fetch-and-cache, which adds the durable record at its key and leaves the
\* other entries alone; a fetch-and-cache is awaited only for a record the call
\* does not hold, and each of the four at most once per resolution; a call with
\* neither channel nor server id returns at once, with no suspension point, no
\* fetch and the cache untouched.
C22_ResolutionOnlyPopulates ==
    [][ /\ db' = db
        /\ cache' # cache => \E p \in ProcIds : proc[p].pc = "populate"
        /\ OnlyPopulated(cache.channel, cache'.channel, db.channels)
        /\ OnlyPopulated(cache.server, cache'.server, db.servers)
        /\ OnlyPopulated(cache.section, cache'.section, db.sections)
        /\ DOMAIN cache.user \subseteq DOMAIN cache'.user
        /\ \A u \in DOMAIN cache'.user :
              OnlyPopulated(Lookup(cache.user, u), cache'.user[u], Lookup(db.roles, u))
        /\ \A p \in ProcIds :
              /\ proc'[p].pc = "db" => FetchOnMiss(proc'[p])
              /\ NoDuplicates(proc'[p].fetches)
              /\ ( /\ proc[p].pc = "idle" /\ proc'[p].pc # "idle"
                   /\ Falsy(proc'[p].channel_id) /\ Falsy(proc'[p].arg_server_id) )
                 => /\ proc'[p].pc = "done"
                    /\ proc'[p].fetches = Empty
                    /\ cache' = cache
      ]_vars

C22_Witness ==
    LET l == proc["p1"]
    IN  /\ l.pc = "checked"
        /\ l.fetches = << "channel", "server", "user", "section" >>
        /\ l.result.status = "ok"
        /\ cache.channel = db.channels
        /\ "s1" \in DOMAIN cache.server /\ cache.server["s1"] = db.servers["s1"]
        /\ cache.section = db.sections
        /\ "u1" \in DOMAIN cache.user /\ cache.user["u1"]["s1"] = db.roles["u1"]["s1"]

====
